---- MODULE Spec2Model ----
(***************************************************************************)
(* A model of src/main.py: the Streamlit bulk e-mail sender.               *)
(*                                                                         *)
(* Text is a sequence of one-character strings, so that str.replace and    *)
(* the e-mail pattern are computed character by character.  An optional    *)
(* value (Python's None or a value) is a sequence of length 0 or 1:        *)
(* None is <<>> and a present value x is <<x>>.                            *)
(***************************************************************************)
EXTENDS Integers, Sequences, FiniteSets, TLC

VARIABLES
    sender_email,     \* st.text_input "Gmail Address"
    sender_password,  \* st.text_input "App Password"
    email_subject,    \* st.text_input "Email Subject"
    template_file,    \* the uploaded template: None or [content, html]
    csv_file,         \* the uploaded table before validation: None or a table
    df,               \* the table the script keeps: None unless it validated
    validation,       \* the result of validate_csv_columns shown for csv_file
    email_results,    \* st.session_state.email_results
    preview_data,     \* st.session_state.preview_data
    pc,               \* position of the running script ("idle": waiting for the user)
    idx,              \* the loop variable of the send loop (0-based)
    server,           \* the smtplib.SMTP object of the current run
    calls,            \* the transport calls made by the current script run, in order
    errors,           \* st.error messages shown by the current script run
    status,           \* status_text of the current script run
    progress_log,     \* the values handed to the progress bar by the current run
    info,             \* st.info / st.success / st.warning notice of a button handler
    batch,            \* parity of the number of Send All presses (tags the outcomes)
    last              \* the handler that ran last

vars == <<sender_email, sender_password, email_subject, template_file, csv_file, df,
          validation, email_results, preview_data, pc, idx, server, calls, errors,
          status, progress_log, info, batch, last>>

(***************************************************************************)
(* Bounds of the model.                                                    *)
(***************************************************************************)
MaxRows == 2        \* rows of a recipient table in the send loop
MaxTableRows == 6   \* rows of a table handed to the validator (good / bad e-mail rows)
MaxMixedRows == 2   \* rows of a table handed to the validator (all row kinds)
MaxPieces == 2      \* pieces a rendered template is put together from

None == <<>>
Some(x) == <<x>>
Min(a, b) == IF a < b THEN a ELSE b

(***************************************************************************)
(* validate_email                                                          *)
(***************************************************************************)
Letters ==
    {"a","b","c","d","e","f","g","h","i","j","k","l","m","n","o","p","q","r","s","t",
     "u","v","w","x","y","z","A","B","C","D","E","F","G","H","I","J","K","L","M","N",
     "O","P","Q","R","S","T","U","V","W","X","Y","Z"}
Digits == {"0","1","2","3","4","5","6","7","8","9"}
LocalChars == Letters \cup Digits \cup {".", "_", "%", "+", "-"}
DomainChars == Letters \cup Digits \cup {".", "-"}
MinTld == 2

\* ^[local]+@[domain]+\.[letters]{2,} against the whole of b
PatternMatches(b) ==
    \E at \in 1..Len(b) : \E dot \in 1..Len(b) :
        /\ at > 1 /\ b[at] = "@"
        /\ dot > at + 1 /\ b[dot] = "."
        /\ Len(b) - dot >= MinTld
        /\ \A i \in 1..(at - 1) : b[i] \in LocalChars
        /\ \A i \in (at + 1)..(dot - 1) : b[i] \in DomainChars
        /\ \A i \in (dot + 1)..Len(b) : b[i] \in Letters

\* re.match with a pattern ending in $: $ also matches before one trailing newline
validate_email(email) ==
    LET n == Len(email)
        b == IF n > 0 /\ email[n] = "\n" THEN SubSeq(email, 1, n - 1) ELSE email
    IN  PatternMatches(b)

(***************************************************************************)
(* replace_placeholders                                                    *)
(***************************************************************************)
\* pandas' missing cell (NaN); no text equals it
Null == <<"NaN">>
\* str(value)
Str(value) == IF value = Null THEN <<"n", "a", "n">> ELSE value

\* str.replace(old, new) for a non-empty old: leftmost, non-overlapping occurrences
RECURSIVE replace(_, _, _)
replace(s, old, new) ==
    IF Len(s) < Len(old) THEN s
    ELSE IF SubSeq(s, 1, Len(old)) = old
         THEN new \o replace(SubSeq(s, Len(old) + 1, Len(s)), old, new)
         ELSE <<s[1]>> \o replace(Tail(s), old, new)

\* f"{{{{{key}}}}}"
Placeholder(key) == <<"{", "{">> \o key \o <<"}", "}">>

\* data is the dict as the sequence of its <<key, value>> items, in dict order
RECURSIVE ReplaceItems(_, _, _)
ReplaceItems(result, data, i) ==
    IF i > Len(data) THEN result
    ELSE ReplaceItems(replace(result, Placeholder(data[i][1]), Str(data[i][2])), data, i + 1)

replace_placeholders(template, data) == ReplaceItems(template, data, 1)

(***************************************************************************)
(* validate_csv_columns                                                    *)
(* A table is [columns |-> sequence of column names,                       *)
(*             rows    |-> sequence of rows, each the cells in column order]*)
(***************************************************************************)
NameCol == <<"n", "a", "m", "e">>
EmailCol == <<"e", "m", "a", "i", "l">>
RequiredColumns == <<NameCol, EmailCol>>
MaxListed == 5

HasColumn(t, col) == \E j \in 1..Len(t.columns) : t.columns[j] = col
ColumnIndex(t, col) == CHOOSE j \in 1..Len(t.columns) : t.columns[j] = col
\* df[col]
Column(t, col) == [r \in 1..Len(t.rows) |-> t.rows[r][ColumnIndex(t, col)]]
\* df[col].isnull().any() or (df[col] == '').any()
HasEmpty(t, col) == \E r \in 1..Len(t.rows) : Column(t, col)[r] = Null \/ Column(t, col)[r] = <<>>

\* InvalidEmails numbering the rows from 0 (idx instead of idx + 1)
InvalidEmailsFromZero(t) ==
    LET emails == Column(t, EmailCol)
        rows == [r \in 1..Len(emails) |-> r]
        bad == SelectSeq(rows, LAMBDA r : ~validate_email(emails[r]))
    IN  [k \in 1..Len(bad) |-> <<bad[k] - 1, emails[bad[k]]>>]

\* the <<row number, email>> pairs of the rows whose email fails validate_email
InvalidEmails(t) ==
    LET emails == Column(t, EmailCol)
        rows == [r \in 1..Len(emails) |-> r]
        bad == SelectSeq(rows, LAMBDA r : ~validate_email(emails[r]))
    IN  [k \in 1..Len(bad) |-> <<bad[k], emails[bad[k]]>>]

\* (is_valid, message): kind names the message, columns and listed are what it cites
Verdict(ok, kind, columns, listed) ==
    [ok |-> ok, kind |-> kind, columns |-> columns, listed |-> listed]

Truncated(invalid) == SubSeq(invalid, 1, Min(MaxListed, Len(invalid)))

validate_csv_columns(t) ==
    LET missing == SelectSeq(RequiredColumns, LAMBDA c : ~HasColumn(t, c))
        empty == SelectSeq(RequiredColumns, LAMBDA c : HasEmpty(t, c))
    IN  IF missing # <<>> THEN Verdict(FALSE, "MissingColumns", missing, <<>>)
        ELSE IF empty # <<>> THEN Verdict(FALSE, "EmptyValue", <<empty[1]>>, <<>>)
        ELSE IF InvalidEmails(t) # <<>>
             THEN Verdict(FALSE, "InvalidEmail", <<>>, Truncated(InvalidEmails(t)))
             ELSE Verdict(TRUE, "Ok", <<>>, <<>>)

NoVerdict == Verdict(FALSE, "None", <<>>, <<>>)

(***************************************************************************)
(* The inputs the user can give (sample values).                           *)
(***************************************************************************)
SenderEmails == {<<>>, <<"m", "e">>, <<"m", "e", "@", "g", ".", "c", "o">>}
Passwords == {<<>>, <<"p", "w">>}
Subjects == {<<>>, <<"N", "e", "w", "s">>}
TemplateFiles ==
    { [content |-> <<>>, html |-> FALSE],
      [content |-> <<"H", "i", " ">> \o Placeholder(NameCol) \o Placeholder(<<"z">>),
       html |-> TRUE] }

DigitText == <<"0", "1", "2", "3", "4", "5", "6", "7", "8", "9">>
\* the i-th recipient of the sample table: a name and a well-formed address of its own
RecipientName(i) == <<"r", DigitText[i + 1]>>
RecipientEmail(i) == <<"r", DigitText[i + 1], "@", "x", ".", "i", "o">>
GoodTable(n) ==
    [columns |-> RequiredColumns,
     rows |-> [i \in 1..n |-> <<RecipientName(i), RecipientEmail(i)>>]]
BadTable ==
    [columns |-> RequiredColumns,
     rows |-> <<<<RecipientName(1), RecipientEmail(1)>>, <<RecipientName(2), <<"r", "2">>>>>>]
Tables == {GoodTable(n) : n \in 0..MaxRows} \cup {BadTable}

(***************************************************************************)
(* What the script reads from its inputs.                                  *)
(***************************************************************************)
\* template_content (lines 102-119)
template_content == IF template_file = None THEN None ELSE Some(template_file[1].content)
\* Python's truth value of template_content: not None and not ''
TemplateLoaded == template_content # None /\ template_content[1] # <<>>
\* len(df)
NumRows == IF df = None THEN 0 ELSE Len(df[1].rows)
\* row.to_dict(): the <<column, cell>> items in column order
to_dict(t, r) == [j \in 1..Len(t.columns) |-> <<t.columns[j], t.rows[r][j]>>]
\* row['email'], row['name']
Cell(t, r, col) == t.rows[r][ColumnIndex(t, col)]

(***************************************************************************)
(* The SMTP transport (smtplib), as the script uses it.  A command on an   *)
(* open session succeeds, is refused by the server (the session stays      *)
(* open) or finds the connection lost (smtplib closes the socket and       *)
(* raises SMTPServerDisconnected); on a session that is not open every     *)
(* command raises SMTPServerDisconnected.                                  *)
(***************************************************************************)
ConnectResults == {"ok", "unreachable"}
CommandResults(srv) == IF srv = "open" THEN {"ok", "refused", "lost"} ELSE {"lost"}
\* QUIT raises only when the connection is lost; any reply closes the session
QuitResults(srv) == IF srv = "open" THEN {"ok", "lost"} ELSE {"lost"}
AfterCommand(srv, r) == IF r = "lost" THEN "lost" ELSE srv
AfterQuit(r) == IF r = "ok" THEN "closed" ELSE "lost"

Call(who, op, row, to, body, r) ==
    [who |-> who, op |-> op, row |-> row, to |-> to, body |-> body, result |-> r,
     recorded |-> Len(email_results)]

Message(text, reason) == [text |-> text, reason |-> reason]
NoStatus == [text |-> "", row |-> 0]

Init ==
    /\ sender_email = <<>>
    /\ sender_password = <<>>
    /\ email_subject = <<>>
    /\ template_file = None
    /\ csv_file = None
    /\ df = None
    /\ validation = NoVerdict
    /\ email_results = <<>>
    /\ preview_data = None
    /\ pc = "idle"
    /\ idx = 0
    /\ server = "none"
    /\ calls = <<>>
    /\ errors = <<>>
    /\ status = NoStatus
    /\ progress_log = <<>>
    /\ info = ""
    /\ batch = 0
    /\ last = "init"

\* A script run starts from a blank page: what the run before showed is gone.
Shows(cs, srv, errs, note) ==
    /\ calls' = cs
    /\ server' = srv
    /\ errors' = errs
    /\ info' = note
    /\ status' = NoStatus
    /\ progress_log' = <<>>
    /\ idx' = 0
    /\ pc' = "idle"

(***************************************************************************)
(* The widgets of the page (lines 77, 78, 101-119, 123-141, 144).          *)
(***************************************************************************)
SetSenderEmail(v) ==
    /\ pc = "idle"
    /\ sender_email' = v
    /\ Shows(<<>>, "none", <<>>, "")
    /\ last' = "input"
    /\ UNCHANGED <<sender_password, email_subject, template_file, csv_file, df,
                   validation, email_results, preview_data, batch>>

SetPassword(v) ==
    /\ pc = "idle"
    /\ sender_password' = v
    /\ Shows(<<>>, "none", <<>>, "")
    /\ last' = "input"
    /\ UNCHANGED <<sender_email, email_subject, template_file, csv_file, df,
                   validation, email_results, preview_data, batch>>

SetSubject(v) ==
    /\ pc = "idle"
    /\ email_subject' = v
    /\ Shows(<<>>, "none", <<>>, "")
    /\ last' = "input"
    /\ UNCHANGED <<sender_email, sender_password, template_file, csv_file, df,
                   validation, email_results, preview_data, batch>>

UploadTemplate(f) ==
    /\ pc = "idle"
    /\ template_file' = f
    /\ Shows(<<>>, "none", <<>>, "")
    /\ last' = "input"
    /\ UNCHANGED <<sender_email, sender_password, email_subject, csv_file, df,
                   validation, email_results, preview_data, batch>>

\* lines 124-141: the table is kept only if validate_csv_columns accepts it
Loaded(f) == IF f # None /\ validate_csv_columns(f[1]).ok THEN f ELSE None

UploadCsv(f) ==
    /\ pc = "idle"
    /\ csv_file' = f
    /\ validation' = IF f = None THEN NoVerdict ELSE validate_csv_columns(f[1])
    /\ df' = Loaded(f)
    /\ Shows(<<>>, "none", <<>>, "")
    /\ last' = "input"
    /\ UNCHANGED <<sender_email, sender_password, email_subject, template_file,
                   email_results, preview_data, batch>>

(***************************************************************************)
(* Test Connection (lines 80-95).                                          *)
(***************************************************************************)
\* lines 91-93: what the handler shows once the try block has ended
TestShows(cs, srv, raised) ==
    IF raised = <<>>
    THEN Shows(cs, srv, <<>>, "Connection successful!")
    ELSE Shows(cs, srv, <<Message("Connection failed: ", raised[1])>>, "")

TestCall(op, r) == Call("test", op, 0, <<>>, <<>>, r)

\* lines 87-90: each call runs only if the one before it returned
TestSession ==
    \E rc \in ConnectResults :
        LET c1 == <<TestCall("connect", rc)>>
        IN  IF rc # "ok" THEN TestShows(c1, "none", <<rc>>)
            ELSE \E rs \in CommandResults("open") :
                LET c2 == Append(c1, TestCall("starttls", rs))
                IN  IF rs # "ok" THEN TestShows(c2, AfterCommand("open", rs), <<rs>>)
                    ELSE \E rl \in CommandResults("open") :
                        LET c3 == Append(c2, TestCall("login", rl))
                        IN  IF rl # "ok"
                            THEN TestShows(c3, AfterCommand("open", rl), <<rl>>)
                            ELSE \E rq \in QuitResults("open") :
                                TestShows(Append(c3, TestCall("quit", rq)), AfterQuit(rq),
                                          IF rq = "ok" THEN <<>> ELSE <<rq>>)

TestConnection ==
    /\ pc = "idle"
    /\ last' = "test"
    /\ IF sender_email # <<>> /\ sender_password # <<>>
       THEN IF ~validate_email(sender_email)
            THEN Shows(<<>>, "none", <<Message("Invalid email address format", "")>>, "")
            ELSE TestSession
       ELSE Shows(<<>>, "none", <<>>, "Please enter both email and password")
    /\ UNCHANGED <<sender_email, sender_password, email_subject, template_file, csv_file,
                   df, validation, email_results, preview_data, batch>>

(***************************************************************************)
(* Generate Preview (lines 146-158).                                       *)
(***************************************************************************)
GeneratePreview ==
    /\ pc = "idle"
    /\ TemplateLoaded /\ df # None /\ NumRows > 0
    /\ preview_data' =
          Some([recipient |-> to_dict(df[1], 1),
                content |-> replace_placeholders(template_content[1], to_dict(df[1], 1)),
                is_html |-> template_file[1].html])
    /\ Shows(<<>>, "none", <<>>, "")
    /\ last' = "preview"
    /\ UNCHANGED <<sender_email, sender_password, email_subject, template_file, csv_file,
                   df, validation, email_results, batch>>

(***************************************************************************)
(* Send All Emails (lines 167-210).                                        *)
(***************************************************************************)
\* SendEnabled without the test of the subject
SendEnabledWithoutSubject ==
    /\ TemplateLoaded
    /\ df # None
    /\ sender_email # <<>>
    /\ sender_password # <<>>

\* line 167: the condition under which the Send All button exists
SendEnabled ==
    /\ TemplateLoaded
    /\ df # None
    /\ sender_email # <<>>
    /\ sender_password # <<>>
    /\ email_subject # <<>>

\* Cleared forgetting to reset the list
NotCleared(results) == results

\* line 170
Cleared(results) == <<>>

\* lines 169-173: the press itself
SendAll ==
    /\ pc = "idle"
    /\ SendEnabled
    /\ email_results' = Cleared(email_results)
    /\ batch' = 1 - batch
    /\ last' = "send"
    /\ calls' = <<>>
    /\ server' = "none"
    /\ info' = ""
    /\ status' = NoStatus
    /\ progress_log' = <<>>
    /\ idx' = 0
    /\ IF ~validate_email(sender_email)
       THEN /\ errors' = <<Message("Invalid sender email address", "")>>
            /\ pc' = "idle"
       ELSE /\ errors' = <<>>
            /\ pc' = "connect"
    /\ UNCHANGED <<sender_email, sender_password, email_subject, template_file, csv_file,
                   df, validation, preview_data>>

\* line 210: the handler of the outer try
Fatal(reason) ==
    /\ errors' = Append(errors, Message("SMTP connection error: ", reason))
    /\ pc' = "idle"

\* line 176
Connect ==
    /\ pc = "connect"
    /\ \E r \in ConnectResults :
        /\ calls' = Append(calls, Call("batch", "connect", 0, <<>>, <<>>, r))
        /\ IF r = "ok"
           THEN /\ server' = "open"
                /\ pc' = "starttls"
                /\ UNCHANGED errors
           ELSE /\ server' = "none"
                /\ Fatal(r)
    /\ UNCHANGED <<sender_email, sender_password, email_subject, template_file, csv_file,
                   df, validation, email_results, preview_data, idx, status,
                   progress_log, info, batch, last>>

\* line 177
Starttls ==
    /\ pc = "starttls"
    /\ \E r \in CommandResults(server) :
        /\ calls' = Append(calls, Call("batch", "starttls", 0, <<>>, <<>>, r))
        /\ server' = AfterCommand(server, r)
        /\ IF r = "ok"
           THEN /\ pc' = "login"
                /\ UNCHANGED errors
           ELSE Fatal(r)
    /\ UNCHANGED <<sender_email, sender_password, email_subject, template_file, csv_file,
                   df, validation, email_results, preview_data, idx, status,
                   progress_log, info, batch, last>>

\* a value of the progress bar, as the fraction num/den
Fraction(num, den) == [num |-> num, den |-> den]

\* lines 178-184: login, the empty progress bar, and the entry of the loop
Login ==
    /\ pc = "login"
    /\ \E r \in CommandResults(server) :
        /\ calls' = Append(calls, Call("batch", "login", 0, <<>>, <<>>, r))
        /\ server' = AfterCommand(server, r)
        /\ IF r = "ok"
           THEN /\ progress_log' = Append(progress_log, Fraction(0, 1))
                /\ pc' = IF NumRows > 0 THEN "row" ELSE "quit"
                /\ UNCHANGED errors
           ELSE /\ Fatal(r)
                /\ UNCHANGED progress_log
    /\ UNCHANGED <<sender_email, sender_password, email_subject, template_file, csv_file,
                   df, validation, email_results, preview_data, idx, status, info,
                   batch, last>>

\* progress counting the rows done before this one (idx / len(df))
progressOfRowsDone(i, n) == Fraction(i, n)

\* line 186: progress = (idx + 1) / len(df)
progress(i, n) == Fraction(i + 1, n)

\* an entry of email_results (lines 191-196, 199-204); batch tags it with the press
Outcome(t, r, success, message) ==
    [recipient |-> Cell(t, r, EmailCol), name |-> Cell(t, r, NameCol),
     success |-> success, message |-> message, batch |-> batch]

\* NextRow staying on the row (the row is sent again)
SameRow(i) == i

\* line 184: the next row of df.iterrows()
NextRow(i) == i + 1

\* lines 185-188, and 198-204 when the progress bar rejects a value above 1
RowStart ==
    /\ pc = "row"
    /\ LET p == progress(idx, NumRows)
       IN  IF p.num <= p.den
           THEN /\ progress_log' = Append(progress_log, p)
                /\ status' = [text |-> "Sending email", row |-> idx + 1]
                /\ pc' = "send"
                /\ UNCHANGED <<email_results, idx>>
           ELSE /\ email_results' =
                      Append(email_results,
                             Outcome(df[1], idx + 1, FALSE, Message("Error: ", "progress")))
                /\ idx' = NextRow(idx)
                /\ pc' = IF NextRow(idx) < NumRows THEN "row" ELSE "quit"
                /\ UNCHANGED <<progress_log, status>>
    /\ UNCHANGED <<sender_email, sender_password, email_subject, template_file, csv_file,
                   df, validation, preview_data, server, calls, errors, info, batch, last>>

\* send_email returning True from its except branch as well
send_email_always_true(r) ==
    IF r = "ok"
    THEN [success |-> TRUE, message |-> Message("Email sent successfully", "")]
    ELSE [success |-> TRUE, message |-> Message("Failed to send email: ", r)]

\* lines 48-63 for the transport's answer r to send_message: (success, message)
send_email(r) ==
    IF r = "ok"
    THEN [success |-> TRUE, message |-> Message("Email sent successfully", "")]
    ELSE [success |-> FALSE, message |-> Message("Failed to send email: ", r)]

\* lines 189-197
RowSend ==
    /\ pc = "send"
    /\ \E r \in CommandResults(server) :
        LET body == replace_placeholders(template_content[1], to_dict(df[1], idx + 1))
            sent == send_email(r)
        IN  /\ calls' = Append(calls, Call("batch", "send", idx + 1,
                                            Cell(df[1], idx + 1, EmailCol), body, r))
            /\ server' = AfterCommand(server, r)
            /\ email_results' =
                  Append(email_results, Outcome(df[1], idx + 1, sent.success, sent.message))
    /\ idx' = NextRow(idx)
    /\ pc' = IF NextRow(idx) < NumRows THEN "row" ELSE "quit"
    /\ UNCHANGED <<sender_email, sender_password, email_subject, template_file, csv_file,
                   df, validation, preview_data, errors, status, progress_log, info,
                   batch, last>>

\* lines 206-208
Quit ==
    /\ pc = "quit"
    /\ \E r \in QuitResults(server) :
        /\ calls' = Append(calls, Call("batch", "quit", 0, <<>>, <<>>, r))
        /\ server' = AfterQuit(r)
        /\ IF r = "ok"
           THEN /\ status' = [text |-> "Email sending completed!", row |-> 0]
                /\ progress_log' = Append(progress_log, Fraction(1, 1))
                /\ pc' = "idle"
                /\ UNCHANGED errors
           ELSE /\ Fatal(r)
                /\ UNCHANGED <<status, progress_log>>
    /\ UNCHANGED <<sender_email, sender_password, email_subject, template_file, csv_file,
                   df, validation, email_results, preview_data, idx, info, batch, last>>

(***************************************************************************)
(* The results section (lines 212-244).                                    *)
(***************************************************************************)
\* lines 233-237
RetryFailed ==
    /\ pc = "idle"
    /\ \E k \in 1..Len(email_results) : ~email_results[k].success
    /\ Shows(<<>>, "none", <<>>, "Retry functionality would be implemented here")
    /\ last' = "retry"
    /\ UNCHANGED <<sender_email, sender_password, email_subject, template_file, csv_file,
                   df, validation, email_results, preview_data, batch>>

\* lines 241-244
ClearResults ==
    /\ pc = "idle"
    /\ email_results # <<>>
    /\ email_results' = <<>>
    /\ preview_data' = None
    /\ Shows(<<>>, "none", <<>>, "")
    /\ last' = "clear"
    /\ UNCHANGED <<sender_email, sender_password, email_subject, template_file, csv_file,
                   df, validation, batch>>

Next ==
    \/ \E v \in SenderEmails : SetSenderEmail(v)
    \/ \E v \in Passwords : SetPassword(v)
    \/ \E v \in Subjects : SetSubject(v)
    \/ \E f \in {None} \cup {Some(t) : t \in TemplateFiles} : UploadTemplate(f)
    \/ \E f \in {None} \cup {Some(t) : t \in Tables} : UploadCsv(f)
    \/ TestConnection
    \/ GeneratePreview
    \/ SendAll
    \/ Connect
    \/ Starttls
    \/ Login
    \/ RowStart
    \/ RowSend
    \/ Quit
    \/ RetryFailed
    \/ ClearResults

Spec == Init /\ [][Next]_vars

(***************************************************************************)
(* The validator on its own: tables of every shape are uploaded.           *)
(***************************************************************************)
OtherCol == <<"c", "i", "t", "y">>
Ana == <<"A", "n", "a">>
GoodEmail == <<"a", "@", "b", ".", "c", "o">>
NotAnEmail == <<"n", "o", "t", "-", "a", "n", "-", "e", "m", "a", "i", "l">>
ShortTld == <<"a", "@", "b", ".", "c">>

\* kinds of rows, as the cells of the name and the email column
GoodRow == [name |-> Ana, email |-> GoodEmail]
BadEmailRow == [name |-> <<"B", "o">>, email |-> NotAnEmail]
MixedRows ==
    { GoodRow, BadEmailRow,
      [name |-> Ana, email |-> ShortTld],
      [name |-> <<>>, email |-> NotAnEmail],
      [name |-> Null, email |-> GoodEmail],
      [name |-> Ana, email |-> Null],
      [name |-> Ana, email |-> <<>>],
      [name |-> <<" ">>, email |-> GoodEmail],
      [name |-> Ana, email |-> GoodEmail \o <<"\n">>] }
ColumnOrders ==
    { <<NameCol, EmailCol>>, <<EmailCol, NameCol>>, <<NameCol, OtherCol, EmailCol>>,
      <<NameCol>>, <<EmailCol>>, <<OtherCol>> }

SeqsUpTo(S, n) == UNION {[1..k -> S] : k \in 0..n}

\* the table with the given columns whose rows are the given kinds
TableOf(columns, kinds) ==
    [columns |-> columns,
     rows |-> [r \in 1..Len(kinds) |->
                 [j \in 1..Len(columns) |->
                     IF columns[j] = NameCol THEN kinds[r].name
                     ELSE IF columns[j] = EmailCol THEN kinds[r].email
                     ELSE <<"x">>]]]

ValidatorTables ==
    {TableOf(c, k) : c \in ColumnOrders, k \in SeqsUpTo(MixedRows, MaxMixedRows)}
    \cup {TableOf(RequiredColumns, k) : k \in SeqsUpTo({GoodRow, BadEmailRow}, MaxTableRows)}

\* one upload per session: each table is validated from the empty page
NextValidator == csv_file = None /\ \E t \in ValidatorTables : UploadCsv(Some(t))

SpecValidator == Init /\ [][NextValidator]_vars

(***************************************************************************)
(* The template engine on its own: a template and a one-row table are      *)
(* loaded, and Generate Preview renders the row.                           *)
(***************************************************************************)
CodeCol == <<"z">>
TemplatePieces ==
    { Placeholder(NameCol), Placeholder(EmailCol), Placeholder(CodeCol),
      Placeholder(<<"q">>), <<"H", "i", " ">>, <<"{">>, <<"}", "}">> }

RECURSIVE Concat(_)
Concat(pieces) == IF pieces = <<>> THEN <<>> ELSE Head(pieces) \o Concat(Tail(pieces))

RenderTemplates ==
    {Concat(ps) : ps \in SeqsUpTo(TemplatePieces, MaxPieces) \ {<<>>}}

NameCells == {Ana, Placeholder(EmailCol), Placeholder(CodeCol)}
CodeCells == {<<"7">>, Null, Placeholder(NameCol)}
RenderTables ==
    {[columns |-> c, rows |-> <<[j \in 1..2 |-> IF c[j] = NameCol THEN n ELSE GoodEmail]>>] :
        c \in {<<NameCol, EmailCol>>, <<EmailCol, NameCol>>}, n \in NameCells}
    \cup
    {[columns |-> c,
      rows |-> <<[j \in 1..3 |-> IF c[j] = NameCol THEN n
                                 ELSE IF c[j] = EmailCol THEN GoodEmail ELSE z]>>] :
        c \in {<<NameCol, EmailCol, CodeCol>>, <<CodeCol, EmailCol, NameCol>>},
        n \in NameCells, z \in CodeCells}

InitRender ==
    /\ sender_email = <<>>
    /\ sender_password = <<>>
    /\ email_subject = <<>>
    /\ template_file \in {Some([content |-> t, html |-> FALSE]) : t \in RenderTemplates}
    /\ csv_file \in {Some(t) : t \in RenderTables}
    /\ df = Loaded(csv_file)
    /\ validation = validate_csv_columns(csv_file[1])
    /\ email_results = <<>>
    /\ preview_data = None
    /\ pc = "idle"
    /\ idx = 0
    /\ server = "none"
    /\ calls = <<>>
    /\ errors = <<>>
    /\ status = NoStatus
    /\ progress_log = <<>>
    /\ info = ""
    /\ batch = 0
    /\ last = "input"

NextRender == GeneratePreview

SpecRender == InitRender /\ [][NextRender]_vars

(***************************************************************************)
(* What a finished or running batch looks like in the state.               *)
(***************************************************************************)
BatchCalls(op) == SelectSeq(calls, LAMBDA c : c.who = "batch" /\ c.op = op)
Sends == BatchCalls("send")
\* the session was acquired: connect, STARTTLS and login all succeeded
Acquired == \E k \in 1..Len(calls) :
                calls[k].who = "batch" /\ calls[k].op = "login" /\ calls[k].result = "ok"
\* a connection-phase call of the batch failed
ConnectionFailed == \E k \in 1..Len(calls) :
                        /\ calls[k].who = "batch"
                        /\ calls[k].op \in {"connect", "starttls", "login"}
                        /\ calls[k].result # "ok"
\* the loop has been left
AfterLoop == pc = "quit" \/ (pc = "idle" /\ BatchCalls("quit") # <<>>)
BatchEnded == pc = "idle" /\ last = "send"
FatalErrors == SelectSeq(errors, LAMBDA e : e.text = "SMTP connection error: ")
Completed == BatchEnded /\ status.text = "Email sending completed!"
LessEq(p, q) == p.num * q.den <= q.num * p.den
Less(p, q) == p.num * q.den < q.num * p.den

(***************************************************************************)
(* C1: in a batch whose connection and login succeeded, the outcome        *)
(* sequence holds exactly i entries while row i (0-based) is processed,    *)
(* and after the loop it has N entries, entry i carrying the email and     *)
(* name of row i and success = FALSE exactly when the send of row i failed.*)
(***************************************************************************)
C1_OneOutcomePerRow ==
    /\ pc \in {"row", "send"} => Len(email_results) = idx /\ idx < NumRows
    /\ (Acquired /\ AfterLoop) =>
          /\ Len(email_results) = NumRows
          /\ Len(Sends) = NumRows
          /\ \A i \in 1..NumRows :
                /\ email_results[i].recipient = df[1].rows[i][2]
                /\ email_results[i].name = df[1].rows[i][1]
                /\ Sends[i].to = df[1].rows[i][2]
                /\ (email_results[i].success = FALSE) <=> (Sends[i].result # "ok")

\* a finished batch of two rows whose first send failed and whose second succeeded
C1_Witness ==
    /\ BatchEnded /\ Acquired /\ NumRows = 2 /\ Len(email_results) = 2
    /\ ~email_results[1].success /\ email_results[2].success

(***************************************************************************)
(* C2: a connect, STARTTLS or login failure ends the batch with zero       *)
(* outcomes, no send and exactly one fatal error; and a fatal error is     *)
(* reported only in a batch with zero outcomes.                            *)
(***************************************************************************)
C2_FatalOnlyWithoutOutcomes ==
    BatchEnded =>
        /\ ConnectionFailed =>
              email_results = <<>> /\ Sends = <<>> /\ Len(FatalErrors) = 1
        /\ FatalErrors # <<>> => email_results = <<>>

(***************************************************************************)
(* C3: once the session is acquired, a failed send of row i is recorded as *)
(* a success = FALSE outcome carrying the failure reason, and the batch    *)
(* ends Completed with all N rows processed, whatever rows failed.         *)
(***************************************************************************)
C3_RowErrorNeverAborts ==
    /\ \A i \in 1..Len(Sends) :
          (Sends[i].result # "ok" /\ i <= Len(email_results)) =>
              /\ ~email_results[i].success
              /\ email_results[i].message.reason = Sends[i].result
    /\ (BatchEnded /\ Acquired /\ \E i \in 1..Len(Sends) : Sends[i].result # "ok") =>
          Completed /\ Len(email_results) = NumRows

(***************************************************************************)
(* C4: no handler ends with an opened session that was never closed.       *)
(***************************************************************************)
C4_SessionReleased == pc = "idle" => server # "open"

(***************************************************************************)
(* C5: the batch makes a transport call (or is anywhere past the press)    *)
(* only when the template is loaded and non-empty, the table passed        *)
(* validation, sender address, secret and subject are non-empty and the    *)
(* sender address passes the format check.                                 *)
(***************************************************************************)
C5_Precondition ==
    /\ template_file # None /\ template_file[1].content # <<>>
    /\ csv_file # None /\ df = csv_file /\ validate_csv_columns(csv_file[1]).ok
    /\ sender_email # <<>> /\ sender_password # <<>> /\ email_subject # <<>>
    /\ validate_email(sender_email)

C5_BatchOnlyWhenConfigured ==
    (pc # "idle" \/ \E k \in 1..Len(calls) : calls[k].who = "batch") => C5_Precondition

\* a message has been handed to the transport
C5_Witness == Sends # <<>>

(***************************************************************************)
(* C8: in one batch the transport sends at most once per row, in           *)
(* increasing row order, each after every earlier outcome is recorded, on  *)
(* the one session of the batch; Retry Failed Emails sends nothing.        *)
(***************************************************************************)
C8_SendsInRowOrder ==
    /\ \A k \in 1..Len(Sends) :
          /\ Sends[k].row = k
          /\ k <= NumRows
          /\ Sends[k].recorded = k - 1
    /\ Len(BatchCalls("connect")) <= 1
    /\ Sends # <<>> => Acquired
    /\ \A k \in 1..Len(calls) : calls[k].op = "send" => calls[k].who = "batch"
    /\ last = "retry" => calls = <<>> /\ pc = "idle"

\* the second row is sent although the first one failed
C8_Witness == Len(Sends) = 2 /\ Sends[1].result = "refused" /\ Len(email_results) = 2

(***************************************************************************)
(* C9: the stored outcomes are those of the latest Send All press only and *)
(* never more than N; a press empties the sequence first, also when it is  *)
(* rejected or fails at connection; Clear Results leaves the sequence      *)
(* empty and the preview unset.                                            *)
(***************************************************************************)
C9_OnlyLatestBatch ==
    /\ \A k \in 1..Len(email_results) : email_results[k].batch = batch
    /\ last \in {"send", "clear"} => Len(email_results) <= NumRows
    /\ (last = "send" /\ pc \in {"connect", "starttls", "login"}) => email_results = <<>>
    /\ (BatchEnded /\ ~Acquired) => email_results = <<>>
    /\ last = "clear" => email_results = <<>> /\ preview_data = None

\* a second press, rejected for its sender address
C9_Witness ==
    /\ BatchEnded /\ batch = 0
    /\ errors = <<Message("Invalid sender email address", "")>>

(***************************************************************************)
(* C10 as claimed: whenever the progress reported in the loop is k/N,      *)
(* exactly k outcomes are recorded; the reported values strictly increase; *)
(* 1.0 is reported only once all N outcomes exist.                         *)
(***************************************************************************)
C10_ProgressAfterRow ==
    (last = "send" /\ progress_log # <<>>) =>
        LET p == progress_log[Len(progress_log)]
        IN  /\ (pc \in {"row", "send", "quit"} /\ Len(progress_log) > 1) =>
                  p.num = Len(email_results) /\ p.den = NumRows
            /\ \A j \in 1..(Len(progress_log) - 1) :
                  Less(progress_log[j], progress_log[j + 1])
            /\ p.num = p.den => Len(email_results) = NumRows

(***************************************************************************)
(* C10 amended: progress (i+1)/N is reported when the processing of row i  *)
(* starts, so k/N is reported with k-1 outcomes recorded; the values of    *)
(* the loop strictly increase, 1.0 is first reported while the last row is *)
(* processed and once more after the loop, with all N outcomes recorded.   *)
(***************************************************************************)
C10_ProgressBeforeRow ==
    /\ pc = "send" =>
          /\ progress_log[Len(progress_log)] = Fraction(idx + 1, NumRows)
          /\ Len(email_results) = idx
          /\ Len(progress_log) = idx + 2
    /\ pc = "row" => Len(progress_log) = idx + 1 /\ Len(email_results) = idx
    /\ last = "send" =>
          \A j \in 1..(Len(progress_log) - 1) :
              /\ LessEq(progress_log[j], progress_log[j + 1])
              /\ j <= NumRows => Less(progress_log[j], progress_log[j + 1])
    /\ Completed =>
          /\ progress_log[Len(progress_log)] = Fraction(1, 1)
          /\ Len(progress_log) = NumRows + 2
          /\ Len(email_results) = NumRows

\* 2/2 is on the progress bar while the second of two rows is still to be sent
C10_Witness ==
    /\ pc = "send" /\ NumRows = 2 /\ idx = 1
    /\ progress_log[Len(progress_log)] = Fraction(2, 2)
    /\ Len(email_results) = 1

(***************************************************************************)
(* C6: the validation of the uploaded table reports the first failing      *)
(* category in the order MissingColumns, EmptyValue, InvalidEmail, lists   *)
(* the first up-to-5 rows with an invalid email in row order with 1-based  *)
(* row numbers, keeps the table exactly when every row has a non-empty     *)
(* name and a non-empty, valid email, and otherwise keeps no table at all. *)
(***************************************************************************)
C6_Present(col) == \E j \in 1..Len(csv_file[1].columns) : csv_file[1].columns[j] = col
C6_Cells(col) ==
    {csv_file[1].rows[r][j] : r \in 1..Len(csv_file[1].rows),
                              j \in {i \in 1..Len(csv_file[1].columns) :
                                        csv_file[1].columns[i] = col}}
C6_Blank == \E c \in C6_Cells(NameCol) \cup C6_Cells(EmailCol) : c = Null \/ c = <<>>
\* the numbers (1-based) of the rows whose email fails the format check
C6_Offending ==
    {r \in 1..Len(csv_file[1].rows) :
        \E j \in 1..Len(csv_file[1].columns) :
            csv_file[1].columns[j] = EmailCol /\ ~validate_email(csv_file[1].rows[r][j])}

C6_ValidationAllOrNothing ==
    csv_file # None =>
        IF ~C6_Present(NameCol) \/ ~C6_Present(EmailCol)
        THEN /\ validation.kind = "MissingColumns" /\ ~validation.ok /\ df = None
             /\ \A c \in {NameCol, EmailCol} :
                   (\E k \in 1..Len(validation.columns) : validation.columns[k] = c)
                       <=> ~C6_Present(c)
        ELSE IF C6_Blank
        THEN validation.kind = "EmptyValue" /\ ~validation.ok /\ df = None
        ELSE IF C6_Offending # {}
        THEN /\ validation.kind = "InvalidEmail" /\ ~validation.ok /\ df = None
             /\ Len(validation.listed) = Min(5, Cardinality(C6_Offending))
             /\ \A k \in 1..Len(validation.listed) :
                   LET r == validation.listed[k][1]
                   IN  /\ r \in C6_Offending
                       /\ Cardinality({q \in C6_Offending : q < r}) = k - 1
                       /\ \E j \in 1..Len(csv_file[1].columns) :
                             /\ csv_file[1].columns[j] = EmailCol
                             /\ validation.listed[k][2] = csv_file[1].rows[r][j]
        ELSE validation.ok /\ df = csv_file

\* six rows with an invalid email: the sixth is not listed
C6_Witness ==
    /\ csv_file # None /\ validation.kind = "InvalidEmail"
    /\ Cardinality(C6_Offending) = 6 /\ Len(validation.listed) = 5
    /\ validation.listed[5][1] = 5

(***************************************************************************)
(* C7: the rendered text is the template with every token {{k}} whose k is *)
(* a key of the row replaced by the stringified value, every other token   *)
(* and all other text left as it is, whatever the order of the keys.       *)
(***************************************************************************)
\* \w of the pattern of extract_placeholders (line 17)
WordChars == Letters \cup Digits \cup {"_"}
\* \{\{(\w+)\}\} at the start of t: the length of the identifier (0: no token)
TokenWord(t) ==
    IF Len(t) >= 5 /\ t[1] = "{" /\ t[2] = "{"
    THEN LET ends == {m \in 1..(Len(t) - 4) :
                         /\ \A i \in 3..(2 + m) : t[i] \in WordChars
                         /\ t[3 + m] = "}" /\ t[4 + m] = "}"}
         IN  IF ends = {} THEN 0 ELSE CHOOSE m \in ends : TRUE
    ELSE 0

RECURSIVE C7_Substituted(_, _)
C7_Substituted(t, data) ==
    IF t = <<>> THEN <<>>
    ELSE LET m == TokenWord(t)
         IN  IF m = 0 THEN <<t[1]>> \o C7_Substituted(Tail(t), data)
             ELSE LET key == SubSeq(t, 3, 2 + m)
                      rest == SubSeq(t, m + 5, Len(t))
                      hits == {i \in 1..Len(data) : data[i][1] = key}
                  IN  IF hits = {} THEN SubSeq(t, 1, m + 4) \o C7_Substituted(rest, data)
                      ELSE Str(data[CHOOSE i \in hits : TRUE][2]) \o C7_Substituted(rest, data)

C7_Orders(data) ==
    {[i \in 1..Len(data) |-> data[p[i]]] :
        p \in {q \in [1..Len(data) -> 1..Len(data)] :
                  \A a, b \in 1..Len(data) : q[a] = q[b] => a = b}}

C7_RenderIsSubstitution ==
    (last = "preview" /\ preview_data # None) =>
        LET t == template_file[1].content
            data == to_dict(df[1], 1)
        IN  /\ preview_data[1].content = C7_Substituted(t, data)
            /\ \A d \in C7_Orders(data) : replace_placeholders(t, d) = preview_data[1].content

====
